---- MODULE Spec2Model ----
(***************************************************************************)
(* Model of DataImporterLogic (Modules/Scripted/ShapeAnalysisToolBox/      *)
(* DataImporter.py): import of a cohort of segmentations, computation of   *)
(* the topology number of every segment, resolution of the expected        *)
(* topology of every segment name by mode, and the consistency check of    *)
(* the cohort table against those expectations.                            *)
(*                                                                         *)
(* Python dictionaries keep insertion order; the outer level of a          *)
(* topology table is therefore a sequence of entries [name, segs], and     *)
(* the inner level a function from segment names to topology numbers.      *)
(* Dictionaries whose order the code never reads are functions.            *)
(***************************************************************************)
EXTENDS Integers, Sequences, FiniteSets, TLC

(***************************************************************************)
(* Bounds of the model.                                                    *)
(***************************************************************************)
\* number of files of the catalogue that the session may import
MaxFiles == 4
\* number of subjects of an input table handed to the table functions
MaxSubjects == 3
\* number of connected components of a surface mesh
MaxComponents == 2
\* number of paths of a list handed to importFiles
MaxPaths == 2

(***************************************************************************)
(* DataImporterLogic class constants.                                      *)
(***************************************************************************)
TOPOLOGY_STRIP_TYPE == 0
TOPOLOGY_DISK_TYPE == 1
TOPOLOGY_SPHERE_TYPE == 2
TOPOLOGY_DOUBLE_TORUS_TYPE == -2
TOPOLOGY_TRIPLE_TORUS_TYPE == -4
TOPOLOGY_MULTIPLE_HOLES_TYPE == -9999

\* the values of the TOPOLOGY_TYPES dictionary
TopologyTypeName(topologyType) ==
  CASE topologyType = TOPOLOGY_STRIP_TYPE -> "Circle/Torus/Mobius Strip"
    [] topologyType = TOPOLOGY_DISK_TYPE -> "Disk"
    [] topologyType = TOPOLOGY_SPHERE_TYPE -> "Sphere"
    [] topologyType = TOPOLOGY_DOUBLE_TORUS_TYPE -> "Double Torus"
    [] topologyType = TOPOLOGY_TRIPLE_TORUS_TYPE -> "Triple Torus"
    [] topologyType = TOPOLOGY_MULTIPLE_HOLES_TYPE -> "Multiple Holes"

\* the keys of the TOPOLOGY_TYPES dictionary
TOPOLOGY_TYPES ==
  { TOPOLOGY_STRIP_TYPE, TOPOLOGY_DISK_TYPE, TOPOLOGY_SPHERE_TYPE,
    TOPOLOGY_DOUBLE_TORUS_TYPE, TOPOLOGY_TRIPLE_TORUS_TYPE,
    TOPOLOGY_MULTIPLE_HOLES_TYPE }

\* indexToTopologyType: combo box index -> topology type
indexToTopologyType ==
  << TOPOLOGY_STRIP_TYPE, TOPOLOGY_DISK_TYPE, TOPOLOGY_SPHERE_TYPE,
     TOPOLOGY_DOUBLE_TORUS_TYPE, TOPOLOGY_TRIPLE_TORUS_TYPE,
     TOPOLOGY_MULTIPLE_HOLES_TYPE >>

\* the empty dictionary
EmptyDict == [k \in {} |-> 0]

\* initial value of labelRangeInCohort
NoLabelRange == << -1, -1 >>

(***************************************************************************)
(* Surface meshes as the vtk filters of populateTopologyDictionary see     *)
(* them: connected components with their unique points, the duplicates of  *)
(* those points, their unique undirected edges and their polygons, plus    *)
(* points used by no cell.                                                 *)
(***************************************************************************)
Component(p, d, e, f) == [points |-> p, dups |-> d, edges |-> e, polys |-> f]

Mesh(cs, o) == [comps |-> cs, orphans |-> o]

RECURSIVE SumOver(_, _)
SumOver(s, field) ==
  IF s = << >> THEN 0
  ELSE (IF field = "points" THEN Head(s).points
        ELSE IF field = "dups" THEN Head(s).dups
        ELSE IF field = "edges" THEN Head(s).edges
        ELSE Head(s).polys) + SumOver(Tail(s), field)

\* vtkPolyData.GetNumberOfPoints
GetNumberOfPoints(m) ==
  SumOver(m.comps, "points") + SumOver(m.comps, "dups") + m.orphans

\* vtkPolyData.GetNumberOfPolys
GetNumberOfPolys(m) == SumOver(m.comps, "polys")

\* the edges of every polygon counted, an edge of two triangles twice
GetNumberOfLines_PerPolygon(m) == 3 * SumOver(m.comps, "polys")

\* vtkExtractEdges output, GetNumberOfLines: every undirected edge once
GetNumberOfLines(m) == SumOver(m.comps, "edges")

\* vtkCleanPolyData: merges duplicate points, drops points used by no cell
CleanPolyData(m) ==
  Mesh([i \in DOMAIN m.comps |-> [m.comps[i] EXCEPT !.dups = 0]], 0)

\* vtkPolyDataConnectivityFilter, SetExtractionModeToLargestRegion: keeps the
\* cells of the first region with the most cells and passes every point on
LargestRegion(m) ==
  IF m.comps = << >> THEN m
  ELSE LET best == CHOOSE i \in DOMAIN m.comps :
                     /\ \A j \in DOMAIN m.comps : m.comps[j].polys <= m.comps[i].polys
                     /\ \A j \in DOMAIN m.comps :
                          m.comps[j].polys = m.comps[i].polys => i <= j
       IN Mesh(<< m.comps[best] >>,
               GetNumberOfPoints(m) - m.comps[best].points - m.comps[best].dups)

\* the largest component without the second cleaning
CleanData_CleanOnce(polydata) == LargestRegion(CleanPolyData(polydata))

\* clean, largest component, clean again
CleanData(polydata) == CleanPolyData(LargestRegion(CleanPolyData(polydata)))

\* topologyNumber = points - edges + polys of the cleaned mesh
TopologyNumber(polydata) ==
  LET cleanData == CleanData(polydata)
  IN GetNumberOfPoints(cleanData) - GetNumberOfLines(cleanData)
       + GetNumberOfPolys(cleanData)

(***************************************************************************)
(* The files on disk.  A file has a name (the key of the subject in every  *)
(* dictionary), the file type the io manager reports, and the segments of  *)
(* the segmentation node that loading it yields: a sequence of             *)
(* [name, hasSurface, polydata].                                           *)
(***************************************************************************)
Segment(n, m) == [name |-> n, hasSurface |-> TRUE, polydata |-> m]

SegmentWithoutSurface(n) == [name |-> n, hasSurface |-> FALSE, polydata |-> Mesh(<< >>, 0)]

Tetrahedron == Mesh(<< Component(4, 0, 6, 4) >>, 0)
Torus == Mesh(<< Component(9, 0, 27, 18) >>, 0)
Genus4 == Mesh(<< Component(12, 2, 54, 36) >>, 0)
Genus5 == Mesh(<< Component(12, 0, 60, 40) >>, 1)
SphereWithDebris == Mesh(<< Component(3, 0, 3, 1), Component(4, 1, 6, 4) >>, 0)

FileCatalogue ==
  << [name |-> "case01.nrrd", fileType |-> "VolumeFile",
      segments |-> << Segment("0", Tetrahedron), Segment("1", Torus) >>],
     [name |-> "case02.seg.nrrd", fileType |-> "SegmentationFile",
      segments |-> << Segment("1", Genus4), Segment("2", SphereWithDebris) >>],
     [name |-> "case03.seg.nrrd", fileType |-> "SegmentationFile",
      segments |-> << Segment("1", Genus5), SegmentWithoutSurface("2") >>],
     [name |-> "sample_model.vtk", fileType |-> "ModelFile",
      segments |-> << Segment("1", Tetrahedron) >>],
     [name |-> "sample_model2.vtk", fileType |-> "ModelFile",
      segments |-> << Segment("1", Genus4) >>],
     [name |-> "case04.nrrd", fileType |-> "VolumeFile",
      segments |-> << Segment("0", Tetrahedron), Segment("1", Genus4) >>] >>

Min(a, b) == IF a <= b THEN a ELSE b

Files == { FileCatalogue[i] : i \in 1 .. Min(MaxFiles, Len(FileCatalogue)) }

\* a path that does not exist: the io manager reports 'NoFile', loading fails
NotExisting == [name |-> "not_existing_for_sure.nrrd", fileType |-> "NoFile",
                segments |-> << >>]

Paths == Files \cup { NotExisting }

\* a label map file that the loader cannot read
Broken == [name |-> "broken.nrrd", fileType |-> "VolumeFile", segments |-> << >>]

UnreadableFiles == { Broken.name }

\* a file of a type that the module does not handle
Notes == [name |-> "notes.txt", fileType |-> "TextFile", segments |-> << >>]

\* an open surface of genus 5000: 10003 - 60002 + 40000 = -9999
PorousPatch == Mesh(<< Component(10003, 0, 60002, 40000) >>, 0)

PorousModel == [name |-> "porous_model.vtk", fileType |-> "ModelFile",
                segments |-> << Segment("1", PorousPatch) >>]

(***************************************************************************)
(* Ordered dictionaries: sequences of entries with distinct names.         *)
(***************************************************************************)
Keys(d) == { d[i].name : i \in DOMAIN d }

IndexOf(d, n) == CHOOSE i \in DOMAIN d : d[i].name = n

\* d[n] = entry: an existing key keeps its position, a new key is appended
Put(d, n, entry) ==
  IF n \in Keys(d) THEN [d EXCEPT ![IndexOf(d, n)] = entry]
  ELSE Append(d, entry)

\* topology table lookups
SegsOf(t, n) == t[IndexOf(t, n)].segs

SegmentNamesOf(t) == UNION { DOMAIN t[i].segs : i \in DOMAIN t }

(***************************************************************************)
(* State of a DataImporterLogic and the outcome of the last call.          *)
(***************************************************************************)
VARIABLES
  saveCleanData,                \* self.saveCleanData
  labelMapDict,                 \* names of the imported label map nodes
  modelDict,                    \* names of the imported model nodes
  segmentationDict,             \* ordered: [name, segments]
  labelRangeInCohort,           \* (-1,-1) or (0,N)
  topologyDict,                 \* ordered: [name, segs]
  polyDataDict,                 \* name -> segment name -> stored polydata
  expectedTopologiesBySegment,  \* segment name -> topology type
  inconsistentTopologyDict,     \* name -> segment name -> topology number
  numberOfDifferentSegments,
  dictSegmentNamesWithIntegers, \* segment name -> integer
  callerTable,                  \* the table a caller hands to the table functions
  ret                           \* outcome of the last call

vars == << saveCleanData, labelMapDict, modelDict, segmentationDict,
           labelRangeInCohort, topologyDict, polyDataDict,
           expectedTopologiesBySegment, inconsistentTopologyDict,
           numberOfDifferentSegments, dictSegmentNamesWithIntegers,
           callerTable, ret >>

\* the outcome of a call: how it ended (return, raise), the returned boolean,
\* the returned value and the returned deviations
Outcome(op, arg, how, flag, val, dev) ==
  [op |-> op, arg |-> arg, how |-> how, flag |-> flag, val |-> val, dev |-> dev]

NoCall == Outcome("none", "", "return", FALSE, 0, EmptyDict)

(***************************************************************************)
(* _computeModeOfSegment.                                                  *)
(***************************************************************************)
\* segmentTopologies: the values of the segment, in the order of the subjects
RECURSIVE SegmentTopologies(_, _)
SegmentTopologies(t, inputSegmentName) ==
  IF t = << >> THEN << >>
  ELSE (IF inputSegmentName \in DOMAIN Head(t).segs
        THEN << Head(t).segs[inputSegmentName] >> ELSE << >>)
       \o SegmentTopologies(Tail(t), inputSegmentName)

CountOf(l, v) == Cardinality({ i \in DOMAIN l : l[i] = v })

\* the first value instead of the most frequent one
MostCommon_First(l) == l[1]

\* Counter(l).most_common(1)[0][0]: the counter keeps the values in the order
\* of their first occurrence and the first value with the largest count wins
MostCommon(l) ==
  LET best == CHOOSE i \in DOMAIN l :
                /\ \A j \in DOMAIN l : CountOf(l, l[j]) <= CountOf(l, l[i])
                /\ \A j \in DOMAIN l :
                     CountOf(l, l[j]) = CountOf(l, l[i]) => i <= j
  IN l[best]

ModeOutcome(how, isNone, val) == [how |-> how, isNone |-> isNone, val |-> val]

\* the mode without the test for an empty list of observations:
\* most_common(1)[0] raises on an empty counter
computeModeOfSegment_NoGuard(inputTopologyDict, inputSegmentName) ==
  IF SegmentTopologies(inputTopologyDict, inputSegmentName) = << >>
  THEN ModeOutcome("raise", FALSE, 0)
  ELSE ModeOutcome("return", FALSE,
                   MostCommon(SegmentTopologies(inputTopologyDict, inputSegmentName)))

computeModeOfSegment(inputTopologyDict, inputSegmentName) ==
  IF inputTopologyDict = << >>
  THEN ModeOutcome("raise", FALSE, 0)      \* next(iter({})) raises
  ELSE LET segmentTopologies == SegmentTopologies(inputTopologyDict, inputSegmentName)
       IN IF segmentTopologies = << >>
          THEN ModeOutcome("return", TRUE, 0)     \* return None
          ELSE ModeOutcome("return", FALSE, MostCommon(segmentTopologies))

(***************************************************************************)
(* initExpectedTopologyBySegmentWithModes: the new value of                *)
(* expectedTopologiesBySegment.                                            *)
(***************************************************************************)
\* the mode stored as it is, without the test for a valid topology type
initExpectedTopologyBySegmentWithModes_NoValidation(inputTopologyDictionary) ==
  [ segmentName \in SegmentNamesOf(inputTopologyDictionary) |->
      computeModeOfSegment(inputTopologyDictionary, segmentName).val ]

initExpectedTopologyBySegmentWithModes(inputTopologyDictionary) ==
  [ segmentName \in SegmentNamesOf(inputTopologyDictionary) |->
      LET mode == computeModeOfSegment(inputTopologyDictionary, segmentName)
          validTopologyType == (~mode.isNone) /\ mode.val \in TOPOLOGY_TYPES
      IN IF validTopologyType THEN mode.val ELSE TOPOLOGY_MULTIPLE_HOLES_TYPE ]

(***************************************************************************)
(* checkTopologyConsistency.                                               *)
(***************************************************************************)
\* the expectations resolved again on every check
ExpectedForCheck_AlwaysResolve(expected, inputTopologyDictionary) ==
  initExpectedTopologyBySegmentWithModes(inputTopologyDictionary)

\* the expectations the comparison loop reads: resolved first when empty
ExpectedForCheck(expected, inputTopologyDictionary) ==
  IF expected = EmptyDict
  THEN initExpectedTopologyBySegmentWithModes(inputTopologyDictionary)
  ELSE expected

\* the comparison of one entry with the expectation of its segment
IsInconsistent(topologyType, expectedType) == topologyType # expectedType

\* an inner dictionary for every subject, also for those without a mismatch
InconsistentSegments_EveryRow(expected, inputTopologyDictionary) ==
  [ n \in Keys(inputTopologyDictionary) |->
      LET i == IndexOf(inputTopologyDictionary, n)
      IN [ s \in { sn \in DOMAIN inputTopologyDictionary[i].segs :
                     IsInconsistent(inputTopologyDictionary[i].segs[sn], expected[sn]) } |->
             inputTopologyDictionary[i].segs[s] ] ]

\* inconsistentSegments as the loop builds it
InconsistentSegments(expected, inputTopologyDictionary) ==
  LET bad(i) == { s \in DOMAIN inputTopologyDictionary[i].segs :
                    IsInconsistent(inputTopologyDictionary[i].segs[s], expected[s]) }
      rows == { i \in DOMAIN inputTopologyDictionary : bad(i) # {} }
  IN [ n \in { inputTopologyDictionary[i].name : i \in rows } |->
         LET i == IndexOf(inputTopologyDictionary, n)
         IN [ s \in bad(i) |-> inputTopologyDictionary[i].segs[s] ] ]

CheckOutcome(how, expected, flag, dev) ==
  [how |-> how, expected |-> expected, flag |-> flag, dev |-> dev]

\* the check that skips a segment without expectation instead of failing
checkTopologyConsistency_Skip(expected, inputTopologyDictionary) ==
  LET exp == ExpectedForCheck(expected, inputTopologyDictionary)
      bad(i) == { s \in DOMAIN inputTopologyDictionary[i].segs \cap DOMAIN exp :
                    IsInconsistent(inputTopologyDictionary[i].segs[s], exp[s]) }
      rows == { i \in DOMAIN inputTopologyDictionary : bad(i) # {} }
      dev == [ n \in { inputTopologyDictionary[i].name : i \in rows } |->
                 LET i == IndexOf(inputTopologyDictionary, n)
                 IN [ s \in bad(i) |-> inputTopologyDictionary[i].segs[s] ] ]
  IN CheckOutcome("return", exp, dev # EmptyDict, dev)

\* the outcome of checkTopologyConsistency called in a state where
\* expectedTopologiesBySegment = expected
checkTopologyConsistency(expected, inputTopologyDictionary) ==
  LET exp == ExpectedForCheck(expected, inputTopologyDictionary)
  IN IF SegmentNamesOf(inputTopologyDictionary) \subseteq DOMAIN exp
     THEN LET inconsistentSegments == InconsistentSegments(exp, inputTopologyDictionary)
          IN CheckOutcome("return", exp, inconsistentSegments # EmptyDict,
                          inconsistentSegments)
     ELSE CheckOutcome("raise", exp, FALSE, EmptyDict)   \* KeyError

(***************************************************************************)
(* getTopologyString, getConsistencyString.                                *)
(***************************************************************************)
Digit(d) ==
  CASE d = 0 -> "0" [] d = 1 -> "1" [] d = 2 -> "2" [] d = 3 -> "3" [] d = 4 -> "4"
    [] d = 5 -> "5" [] d = 6 -> "6" [] d = 7 -> "7" [] d = 8 -> "8" [] d = 9 -> "9"

\* str of an integer: sign and decimal digits
RECURSIVE str(_)
str(n) ==
  IF n < 0 THEN "-" \o str(-n)
  ELSE IF n < 10 THEN Digit(n)
  ELSE str(n \div 10) \o Digit(n % 10)

getTopologyString(nodeName, segmentName) ==
  IF /\ nodeName \in Keys(topologyDict)
     /\ segmentName \in DOMAIN SegsOf(topologyDict, nodeName)
  THEN LET topologyNum == SegsOf(topologyDict, nodeName)[segmentName]
       IN IF topologyNum \notin TOPOLOGY_TYPES
          THEN str(topologyNum) \o ": "
                 \o TopologyTypeName(TOPOLOGY_MULTIPLE_HOLES_TYPE)
          ELSE TopologyTypeName(topologyNum)
  ELSE "n/a"

getConsistencyString(nodeName, segmentName) ==
  IF /\ nodeName \in DOMAIN inconsistentTopologyDict
     /\ segmentName \in DOMAIN inconsistentTopologyDict[nodeName]
  THEN "Inconsistent" ELSE "Consistent"

(***************************************************************************)
(* Import of one file.  The loaders of the application are outside this    *)
(* module: a loader yields a node exactly for the paths whose file type    *)
(* is the loader's, and None for every other path.                         *)
(***************************************************************************)
Loads(path, fileType) ==
  path.fileType = fileType /\ path.name \notin UnreadableFiles

\* segmentationNode.GetSegmentation().GetNumberOfSegments()
GetNumberOfSegments(segments) == Len(segments)

\* the check without the comparison with the range of the cohort
checkLabelRangeConsistency_AlwaysConsistent(inputNumberOfSegments) ==
  [consistent |-> TRUE, labelRange |-> << 0, inputNumberOfSegments >>]

\* checkLabelRangeConsistency: (consistent, labelRange)
checkLabelRangeConsistency(inputNumberOfSegments) ==
  LET labelRange == << 0, inputNumberOfSegments >>
  IN IF labelRangeInCohort # NoLabelRange /\ labelRange # labelRangeInCohort
     THEN [consistent |-> FALSE, labelRange |-> labelRange]
     ELSE [consistent |-> TRUE, labelRange |-> labelRange]

\* the number of segments handed to checkLabelRangeConsistency (and logged by
\* it on a mismatch), 0 when loading failed before the check
CheckedSegments(path, fileType) ==
  IF Loads(path, fileType) THEN GetNumberOfSegments(path.segments) ELSE 0

SegmentationEntry(path) == [name |-> path.name, segments |-> path.segments]

\* what the three import functions leave alone
ImportFrame ==
  UNCHANGED << saveCleanData, topologyDict, polyDataDict,
               expectedTopologiesBySegment, inconsistentTopologyDict,
               numberOfDifferentSegments, dictSegmentNamesWithIntegers,
               callerTable >>

importLabelMap(path) ==
  LET check == checkLabelRangeConsistency(GetNumberOfSegments(path.segments))
  IN /\ ImportFrame
     /\ UNCHANGED modelDict
     /\ IF ~Loads(path, "VolumeFile") \/ ~check.consistent
        THEN /\ UNCHANGED << labelMapDict, segmentationDict, labelRangeInCohort >>
             /\ ret' = Outcome("importLabelMap", "", "return", FALSE,
                            CheckedSegments(path, "VolumeFile"), EmptyDict)
        ELSE /\ labelMapDict' = labelMapDict \cup { path.name }
             /\ segmentationDict' = Put(segmentationDict, path.name, SegmentationEntry(path))
             /\ labelRangeInCohort' = check.labelRange
             /\ ret' = Outcome("importLabelMap", "", "return", TRUE,
                            CheckedSegments(path, "VolumeFile"), EmptyDict)

importModel(path) ==
  LET check == checkLabelRangeConsistency(GetNumberOfSegments(path.segments))
  IN /\ ImportFrame
     /\ UNCHANGED labelMapDict
     /\ IF ~Loads(path, "ModelFile") \/ ~check.consistent
        THEN /\ UNCHANGED << modelDict, segmentationDict, labelRangeInCohort >>
             /\ ret' = Outcome("importModel", "", "return", FALSE,
                            CheckedSegments(path, "ModelFile"), EmptyDict)
        ELSE /\ modelDict' = modelDict \cup { path.name }
             /\ segmentationDict' = Put(segmentationDict, path.name, SegmentationEntry(path))
             /\ labelRangeInCohort' = check.labelRange
             /\ ret' = Outcome("importModel", "", "return", TRUE,
                            CheckedSegments(path, "ModelFile"), EmptyDict)

importSegmentation(path) ==
  LET check == checkLabelRangeConsistency(GetNumberOfSegments(path.segments))
  IN /\ ImportFrame
     /\ UNCHANGED << labelMapDict, modelDict >>
     /\ IF ~Loads(path, "SegmentationFile") \/ ~check.consistent
        THEN /\ UNCHANGED << segmentationDict, labelRangeInCohort >>
             /\ ret' = Outcome("importSegmentation", "", "return", FALSE,
                            CheckedSegments(path, "SegmentationFile"), EmptyDict)
        ELSE /\ segmentationDict' = Put(segmentationDict, path.name, SegmentationEntry(path))
             /\ labelRangeInCohort' = check.labelRange
             /\ ret' = Outcome("importSegmentation", "", "return", TRUE,
                            CheckedSegments(path, "SegmentationFile"), EmptyDict)

(***************************************************************************)
(* populateTopologyDictionary.                                             *)
(***************************************************************************)
\* the background classified like every other segment
ClassifiedSegments_WithBackground(segments) ==
  { i \in DOMAIN segments : segments[i].hasSurface }

\* a segment without surface ends the classification of its subject
ClassifiedSegments_AllOrNothing(segments) ==
  IF \E i \in DOMAIN segments : segments[i].name # "0" /\ ~segments[i].hasSurface
  THEN {}
  ELSE { i \in DOMAIN segments : segments[i].name # "0" }

\* the segments that get an entry: not the background, and with a surface
ClassifiedSegments(segments) ==
  { i \in DOMAIN segments : segments[i].name # "0" /\ segments[i].hasSurface }

\* of several segments with one name the last one stays in the dictionary
LastWithName(segments, n) ==
  CHOOSE i \in ClassifiedSegments(segments) :
    /\ segments[i].name = n
    /\ \A j \in ClassifiedSegments(segments) : segments[j].name = n => j <= i

TopologyOfSegments(segments) ==
  [ n \in { segments[i].name : i \in ClassifiedSegments(segments) } |->
      TopologyNumber(segments[LastWithName(segments, n)].polydata) ]

\* the input mesh stored whatever saveCleanData is
PolyDataOfSegments_AlwaysOriginal(segments, save) ==
  [ n \in { segments[i].name : i \in ClassifiedSegments(segments) } |->
      segments[LastWithName(segments, n)].polydata ]

PolyDataOfSegments(segments, save) ==
  [ n \in { segments[i].name : i \in ClassifiedSegments(segments) } |->
      IF save THEN CleanData(segments[LastWithName(segments, n)].polydata)
      ELSE segments[LastWithName(segments, n)].polydata ]

\* no entry for a subject none of whose segments is classified
RECURSIVE TopologyDictAfter_SkipEmpty(_, _)
TopologyDictAfter_SkipEmpty(t, segDict) ==
  IF segDict = << >> THEN t
  ELSE TopologyDictAfter_SkipEmpty(
         IF ClassifiedSegments(Head(segDict).segments) = {} THEN t
         ELSE Put(t, Head(segDict).name,
                  [name |-> Head(segDict).name,
                   segs |-> TopologyOfSegments(Head(segDict).segments)]),
         Tail(segDict))

RECURSIVE TopologyDictAfter(_, _)
TopologyDictAfter(t, segDict) ==
  IF segDict = << >> THEN t
  ELSE TopologyDictAfter(
         Put(t, Head(segDict).name,
             [name |-> Head(segDict).name,
              segs |-> TopologyOfSegments(Head(segDict).segments)]),
         Tail(segDict))

PolyDataDictAfter(p, segDict, save) ==
  [ n \in DOMAIN p \cup Keys(segDict) |->
      IF n \in Keys(segDict)
      THEN PolyDataOfSegments(segDict[IndexOf(segDict, n)].segments, save)
      ELSE p[n] ]

populateTopologyDictionary ==
  /\ topologyDict' = TopologyDictAfter(topologyDict, segmentationDict)
  /\ polyDataDict' = PolyDataDictAfter(polyDataDict, segmentationDict, saveCleanData)
  /\ ret' = Outcome("populateTopologyDictionary", "", "return", FALSE, 0, EmptyDict)
  /\ UNCHANGED << saveCleanData, labelMapDict, modelDict, segmentationDict,
                  labelRangeInCohort, expectedTopologiesBySegment,
                  inconsistentTopologyDict, numberOfDifferentSegments,
                  dictSegmentNamesWithIntegers, callerTable >>

(***************************************************************************)
(* populateInconsistentTopologyDict, from a state whose expectations are   *)
(* `expected`: the new expectations, deviations and outcome.               *)
(***************************************************************************)
PopulateInconsistentOutcome(expected) ==
  IF topologyDict = << >>
  THEN [expected |-> expected, dev |-> inconsistentTopologyDict,
        ret |-> Outcome("populateInconsistentTopologyDict", "", "returnNone",
                        FALSE, 0, EmptyDict)]
  ELSE LET c == checkTopologyConsistency(expected, topologyDict)
       IN IF c.how = "raise"
          THEN [expected |-> c.expected, dev |-> inconsistentTopologyDict,
                ret |-> Outcome("populateInconsistentTopologyDict", "", "raise",
                                FALSE, 0, EmptyDict)]
          ELSE [expected |-> c.expected, dev |-> c.dev,
                ret |-> Outcome("populateInconsistentTopologyDict", "", "return",
                                c.flag, 0, c.dev)]

populateInconsistentTopologyDict ==
  LET o == PopulateInconsistentOutcome(expectedTopologiesBySegment)
  IN /\ expectedTopologiesBySegment' = o.expected
     /\ inconsistentTopologyDict' = o.dev
     /\ ret' = o.ret
     /\ UNCHANGED << saveCleanData, labelMapDict, modelDict, segmentationDict,
                     labelRangeInCohort, topologyDict, polyDataDict,
                     numberOfDifferentSegments, dictSegmentNamesWithIntegers,
                     callerTable >>

(***************************************************************************)
(* The user changes the expected topology of a segment in the combo        *)
(* box of its row: onSegmentTableWidgetComboBoxCurrentIndexChanged sets    *)
(* the expectation and updateSubjectsTableConsistencyColumn re-checks.     *)
(* A combo box exists for the segment names of the displayed subjects      *)
(* that had an expectation when their rows were built.                     *)
(***************************************************************************)
HasComboBox(name) ==
  /\ name \in SegmentNamesOf(topologyDict)
  /\ name \in DOMAIN expectedTopologiesBySegment

\* self.logic.expectedTopologiesBySegment[name] = newTopology
SetExpected(expected, name, newTopology) ==
  [ s \in DOMAIN expected \cup { name } |->
      IF s = name THEN newTopology ELSE expected[s] ]

onSegmentTableWidgetComboBoxCurrentIndexChanged(index, name) ==
  LET newTopology == indexToTopologyType[index + 1]
      o == PopulateInconsistentOutcome(
             SetExpected(expectedTopologiesBySegment, name, newTopology))
  IN /\ HasComboBox(name)
     /\ expectedTopologiesBySegment' = o.expected
     /\ inconsistentTopologyDict' = o.dev
     /\ ret' = [o.ret EXCEPT !.op = "override", !.arg = name, !.val = newTopology]
     /\ UNCHANGED << saveCleanData, labelMapDict, modelDict, segmentationDict,
                     labelRangeInCohort, topologyDict, polyDataDict,
                     numberOfDifferentSegments, dictSegmentNamesWithIntegers,
                     callerTable >>

(***************************************************************************)
(* The session: a logic is constructed, files are imported one by one,     *)
(* the table is populated and checked, the user edits expectations.        *)
(***************************************************************************)
Init ==
  /\ saveCleanData = FALSE
  /\ labelMapDict = {}
  /\ modelDict = {}
  /\ segmentationDict = << >>
  /\ labelRangeInCohort = NoLabelRange
  /\ topologyDict = << >>
  /\ polyDataDict = EmptyDict
  /\ expectedTopologiesBySegment = EmptyDict
  /\ inconsistentTopologyDict = EmptyDict
  /\ numberOfDifferentSegments = 0
  /\ dictSegmentNamesWithIntegers = EmptyDict
  /\ callerTable = << >>
  /\ ret = NoCall

ComboBoxIndexes == 0 .. Len(indexToTopologyType) - 1

DisplayedSegmentNames == { "1", "2" }

Next ==
  \/ \E path \in Paths : importLabelMap(path)
  \/ \E path \in Paths : importSegmentation(path)
  \/ \E path \in Paths : importModel(path)
  \/ populateTopologyDictionary
  \/ populateInconsistentTopologyDict
  \/ \E index \in ComboBoxIndexes, name \in DisplayedSegmentNames :
       onSegmentTableWidgetComboBoxCurrentIndexChanged(index, name)

Spec == Init /\ [][Next]_vars

(***************************************************************************)
(* The table functions called directly with a table of the caller, as      *)
(* test_computeMode does: _computeModeOfSegment,                           *)
(* initExpectedTopologyBySegmentWithModes and checkTopologyConsistency.    *)
(***************************************************************************)
TableFrame ==
  UNCHANGED << saveCleanData, labelMapDict, modelDict, segmentationDict,
               labelRangeInCohort, topologyDict, polyDataDict,
               inconsistentTopologyDict, numberOfDifferentSegments,
               dictSegmentNamesWithIntegers, callerTable >>

call_computeModeOfSegment(inputSegmentName) ==
  LET m == computeModeOfSegment(callerTable, inputSegmentName)
  IN /\ ret' = Outcome("_computeModeOfSegment", inputSegmentName,
                       IF m.how = "raise" THEN "raise"
                       ELSE IF m.isNone THEN "returnNone" ELSE "return",
                       FALSE, m.val, EmptyDict)
     /\ UNCHANGED expectedTopologiesBySegment
     /\ TableFrame

call_initExpectedTopologyBySegmentWithModes ==
  /\ expectedTopologiesBySegment' = initExpectedTopologyBySegmentWithModes(callerTable)
  /\ ret' = Outcome("initExpectedTopologyBySegmentWithModes", "", "return",
                    FALSE, 0, EmptyDict)
  /\ TableFrame

call_checkTopologyConsistency ==
  LET c == checkTopologyConsistency(expectedTopologiesBySegment, callerTable)
  IN /\ expectedTopologiesBySegment' = c.expected
     /\ ret' = Outcome("checkTopologyConsistency", "", c.how, c.flag, 0, c.dev)
     /\ TableFrame

(***************************************************************************)
(* The tables of the callers: up to MaxSubjects subjects.  A subject has   *)
(* segmentName1, with a topology number of a named type, and may have      *)
(* segmentName0, with a number of a named type or of no named type.        *)
(***************************************************************************)
SubjectNames == << "name0", "name1", "name2", "name3", "name4" >>

TableSegmentNames == { "segmentName0", "segmentName1" }

QueriedSegmentNames == TableSegmentNames \cup { "non_existing" }

TableNumbers(segmentName) ==
  IF segmentName = "segmentName0" THEN { 0, 1, -6, -8 } ELSE { 0, 1 }

InnerDicts ==
  UNION { { f \in [D -> { 0, 1, -6, -8 }] : \A sn \in D : f[sn] \in TableNumbers(sn) } :
          D \in { E \in SUBSET TableSegmentNames : "segmentName1" \in E } }

RECURSIVE TablesUpTo(_)
TablesUpTo(n) ==
  IF n = 0 THEN { << >> }
  ELSE LET shorter == TablesUpTo(n - 1)
       IN shorter \cup
          { Append(t, [name |-> SubjectNames[n], segs |-> d]) :
              t \in { u \in shorter : Len(u) = n - 1 }, d \in InnerDicts }

Tables == TablesUpTo(Min(MaxSubjects, Len(SubjectNames)))

InitTable ==
  /\ saveCleanData = FALSE
  /\ labelMapDict = {}
  /\ modelDict = {}
  /\ segmentationDict = << >>
  /\ labelRangeInCohort = NoLabelRange
  /\ topologyDict = << >>
  /\ polyDataDict = EmptyDict
  /\ expectedTopologiesBySegment = EmptyDict
  /\ inconsistentTopologyDict = EmptyDict
  /\ numberOfDifferentSegments = 0
  /\ dictSegmentNamesWithIntegers = EmptyDict
  /\ callerTable \in Tables
  /\ ret = NoCall

NextTable ==
  \/ \E inputSegmentName \in QueriedSegmentNames :
       call_computeModeOfSegment(inputSegmentName)
  \/ call_initExpectedTopologyBySegmentWithModes
  \/ call_checkTopologyConsistency

SpecTable == InitTable /\ [][NextTable]_vars

(***************************************************************************)
(* The session with the resolver as an operation of its own: a client of   *)
(* the logic calls initExpectedTopologyBySegmentWithModes(topologyDict)    *)
(* again, at any time.                                                     *)
(***************************************************************************)
rerun_initExpectedTopologyBySegmentWithModes ==
  /\ expectedTopologiesBySegment' = initExpectedTopologyBySegmentWithModes(topologyDict)
  /\ ret' = Outcome("initExpectedTopologyBySegmentWithModes", "", "return",
                    FALSE, 0, EmptyDict)
  /\ UNCHANGED << saveCleanData, labelMapDict, modelDict, segmentationDict,
                  labelRangeInCohort, topologyDict, polyDataDict,
                  inconsistentTopologyDict, numberOfDifferentSegments,
                  dictSegmentNamesWithIntegers, callerTable >>

NextResolver ==
  \/ Next
  \/ rerun_initExpectedTopologyBySegmentWithModes

SpecResolver == Init /\ [][NextResolver]_vars

(***************************************************************************)
(* setSaveCleanData.                                                       *)
(***************************************************************************)
setSaveCleanData(save) ==
  /\ saveCleanData' = save
  /\ ret' = Outcome("setSaveCleanData", "", "returnNone", save, 0, EmptyDict)
  /\ UNCHANGED << labelMapDict, modelDict, segmentationDict, labelRangeInCohort,
                  topologyDict, polyDataDict, expectedTopologiesBySegment,
                  inconsistentTopologyDict, numberOfDifferentSegments,
                  dictSegmentNamesWithIntegers, callerTable >>

(***************************************************************************)
(* The topology number of arbitrary surfaces: a logic that has imported    *)
(* one model file, whose surface is any mesh of up to MaxComponents        *)
(* components, populates its dictionaries with and without saveCleanData.  *)
(***************************************************************************)
\* a closed tetrahedron, a torus, a single triangle, two triangles sharing an
\* edge; each without or with duplicated points
ComponentShapes ==
  { Component(s[1], d, s[2], s[3]) :
      s \in { << 4, 6, 4 >>, << 9, 27, 18 >>, << 3, 3, 1 >>, << 4, 5, 2 >> },
      d \in { 0, 2 } }

RECURSIVE ComponentLists(_)
ComponentLists(n) ==
  IF n = 0 THEN { << >> }
  ELSE LET shorter == ComponentLists(n - 1)
       IN shorter \cup
          { Append(cs, c) : cs \in { u \in shorter : Len(u) = n - 1 },
                            c \in ComponentShapes }

Meshes == { Mesh(cs, o) : cs \in ComponentLists(MaxComponents), o \in { 0, 1 } }

MeshFile(m) ==
  [name |-> "mesh.vtk", fileType |-> "ModelFile", segments |-> << Segment("1", m) >>]

\* the logic after importModel of the mesh file
InitMesh ==
  /\ saveCleanData = FALSE
  /\ labelMapDict = {}
  /\ modelDict = { "mesh.vtk" }
  /\ \E m \in Meshes : segmentationDict = << SegmentationEntry(MeshFile(m)) >>
  /\ labelRangeInCohort = << 0, 1 >>
  /\ topologyDict = << >>
  /\ polyDataDict = EmptyDict
  /\ expectedTopologiesBySegment = EmptyDict
  /\ inconsistentTopologyDict = EmptyDict
  /\ numberOfDifferentSegments = 0
  /\ dictSegmentNamesWithIntegers = EmptyDict
  /\ callerTable = << >>
  /\ ret = NoCall

NextMesh ==
  \/ \E save \in BOOLEAN : setSaveCleanData(save)
  \/ populateTopologyDictionary

SpecMesh == InitMesh /\ [][NextMesh]_vars

(***************************************************************************)
(* importFiles: the import function of every path of the list is chosen    *)
(* by the file type that the io manager reports; the value an import       *)
(* returns is not read.  The imports of one call run one after the other   *)
(* on the import state [labelMapDict, modelDict, segmentationDict,         *)
(* labelRangeInCohort]; `results` collects what they return.               *)
(***************************************************************************)
HandledFileTypes == { "VolumeFile", "SegmentationFile", "ModelFile" }

\* importLabelMap, importSegmentation or importModel, by file type, on state st
ImportInto(st, path, fileType) ==
  LET labelRange == << 0, GetNumberOfSegments(path.segments) >>
      labelRangeConsistent ==
        ~(st.labelRangeInCohort # NoLabelRange /\ labelRange # st.labelRangeInCohort)
  IN IF ~Loads(path, fileType) \/ ~labelRangeConsistent
     THEN [st EXCEPT !.results = Append(@, FALSE)]
     ELSE [labelMapDict |-> IF fileType = "VolumeFile"
                            THEN st.labelMapDict \cup { path.name }
                            ELSE st.labelMapDict,
           modelDict |-> IF fileType = "ModelFile"
                         THEN st.modelDict \cup { path.name }
                         ELSE st.modelDict,
           segmentationDict |-> Put(st.segmentationDict, path.name, SegmentationEntry(path)),
           labelRangeInCohort |-> labelRange,
           results |-> Append(st.results, TRUE)]

\* every file type checked before the first import
RECURSIVE ImportFilesFrom_ValidateFirst(_, _)
ImportFilesFrom_ValidateFirst(st, filePaths) ==
  IF \E i \in DOMAIN filePaths : filePaths[i].fileType \notin HandledFileTypes
  THEN [state |-> st, how |-> "raise"]
  ELSE IF filePaths = << >> THEN [state |-> st, how |-> "return"]
  ELSE ImportFilesFrom_ValidateFirst(
         ImportInto(st, Head(filePaths), Head(filePaths).fileType), Tail(filePaths))

\* the loop left at the first import that returns False
RECURSIVE ImportFilesFrom_StopAtRejected(_, _)
ImportFilesFrom_StopAtRejected(st, filePaths) ==
  IF filePaths = << >> THEN [state |-> st, how |-> "return"]
  ELSE LET fileType == Head(filePaths).fileType
       IN IF fileType \in HandledFileTypes
          THEN LET after == ImportInto(st, Head(filePaths), fileType)
               IN IF after.results[Len(after.results)]
                  THEN ImportFilesFrom_StopAtRejected(after, Tail(filePaths))
                  ELSE [state |-> after, how |-> "return"]
          ELSE [state |-> st, how |-> "raise"]

\* the loop over filePaths from state st: the state it ends in and how it ends
RECURSIVE ImportFilesFrom(_, _)
ImportFilesFrom(st, filePaths) ==
  IF filePaths = << >> THEN [state |-> st, how |-> "return"]     \* return True
  ELSE LET path == Head(filePaths)
           fileType == path.fileType
       IN IF fileType \in HandledFileTypes
          THEN ImportFilesFrom(ImportInto(st, path, fileType), Tail(filePaths))
          ELSE [state |-> st, how |-> "raise"]                   \* TypeError

importFiles(filePaths) ==
  LET o == ImportFilesFrom(
             [labelMapDict |-> labelMapDict, modelDict |-> modelDict,
              segmentationDict |-> segmentationDict,
              labelRangeInCohort |-> labelRangeInCohort, results |-> << >>],
             filePaths)
  IN /\ labelMapDict' = o.state.labelMapDict
     /\ modelDict' = o.state.modelDict
     /\ segmentationDict' = o.state.segmentationDict
     /\ labelRangeInCohort' = o.state.labelRangeInCohort
     /\ ret' = Outcome("importFiles", filePaths, o.how, o.how = "return",
                       o.state.results, EmptyDict)
     /\ ImportFrame

\* a client asks for the topology string of a segment of a subject
call_getTopologyString(nodeName, inputSegmentName) ==
  /\ ret' = Outcome("getTopologyString", << nodeName, inputSegmentName >>, "return",
                    FALSE, getTopologyString(nodeName, inputSegmentName), EmptyDict)
  /\ UNCHANGED << saveCleanData, labelMapDict, modelDict, segmentationDict,
                  labelRangeInCohort, topologyDict, polyDataDict,
                  expectedTopologiesBySegment, inconsistentTopologyDict,
                  numberOfDifferentSegments, dictSegmentNamesWithIntegers,
                  callerTable >>

(***************************************************************************)
(* The batch session: lists of up to MaxPaths paths are imported, the      *)
(* table is populated and the topology strings are read.                   *)
(***************************************************************************)
BatchPaths ==
  { FileCatalogue[1], FileCatalogue[2], PorousModel, Broken, NotExisting, Notes }

RECURSIVE PathListsUpTo(_)
PathListsUpTo(n) ==
  IF n = 0 THEN { << >> }
  ELSE LET shorter == PathListsUpTo(n - 1)
       IN shorter \cup
          { Append(l, path) : l \in { u \in shorter : Len(u) = n - 1 },
                              path \in BatchPaths }

PathLists == PathListsUpTo(MaxPaths)

QueriedNodeNames ==
  { FileCatalogue[1].name, FileCatalogue[2].name, PorousModel.name, NotExisting.name }

QueriedSegments == { "0", "1", "2" }

NextBatch ==
  \/ \E filePaths \in PathLists : importFiles(filePaths)
  \/ populateTopologyDictionary
  \/ \E nodeName \in QueriedNodeNames, inputSegmentName \in QueriedSegments :
       call_getTopologyString(nodeName, inputSegmentName)

SpecBatch == Init /\ [][NextBatch]_vars

(***************************************************************************)
(* populateDictSegmentNamesWithIntegers.                                   *)
(***************************************************************************)
\* the keys of topologyDict[nodeName] in the order of their insertion: the
\* classified segments of the subject in the order of the segmentation node
RECURSIVE ClassifiedNamesInOrder(_)
ClassifiedNamesInOrder(segments) ==
  IF segments = << >> THEN << >>
  ELSE (IF Head(segments).name # "0" /\ Head(segments).hasSurface
        THEN << Head(segments).name >> ELSE << >>)
       \o ClassifiedNamesInOrder(Tail(segments))

\* the segment names that the two loops over topologyDict visit, in order
RECURSIVE VisitedSegmentNames(_)
VisitedSegmentNames(t) ==
  IF t = << >> THEN << >>
  ELSE ClassifiedNamesInOrder(
         segmentationDict[IndexOf(segmentationDict, Head(t).name)].segments)
       \o VisitedSegmentNames(Tail(t))

\* the loop body: a name that is not yet a key gets the next integer
RECURSIVE AssignIntegers(_, _, _)
AssignIntegers(names, dict, count) ==
  IF names = << >> THEN [dict |-> dict, count |-> count]
  ELSE IF Head(names) \in DOMAIN dict
  THEN AssignIntegers(Tail(names), dict, count)
  ELSE AssignIntegers(Tail(names),
                      [ s \in DOMAIN dict \cup { Head(names) } |->
                          IF s = Head(names) THEN count + 1 ELSE dict[s] ],
                      count + 1)

populateDictSegmentNamesWithIntegers ==
  LET o == AssignIntegers(VisitedSegmentNames(topologyDict),
                          dictSegmentNamesWithIntegers, 0)
  IN /\ numberOfDifferentSegments' = o.count
     /\ dictSegmentNamesWithIntegers' = o.dict
     /\ ret' = Outcome("populateDictSegmentNamesWithIntegers", "", "returnNone",
                       FALSE, 0, EmptyDict)
     /\ UNCHANGED << saveCleanData, labelMapDict, modelDict, segmentationDict,
                     labelRangeInCohort, topologyDict, polyDataDict,
                     expectedTopologiesBySegment, inconsistentTopologyDict,
                     callerTable >>

(***************************************************************************)
(* cleanup.  The nodes are removed from the scene; the dictionaries that   *)
(* hold them are not assigned.                                             *)
(***************************************************************************)
cleanup ==
  /\ labelRangeInCohort' = NoLabelRange
  /\ topologyDict' = << >>
  /\ inconsistentTopologyDict' = EmptyDict
  /\ polyDataDict' = EmptyDict
  /\ numberOfDifferentSegments' = 0
  /\ ret' = Outcome("cleanup", "", "returnNone", FALSE, 0, EmptyDict)
  /\ UNCHANGED << saveCleanData, labelMapDict, modelDict, segmentationDict,
                  expectedTopologiesBySegment, dictSegmentNamesWithIntegers,
                  callerTable >>

(***************************************************************************)
(* The life cycle of a logic: imports, population of the table and of the  *)
(* integers of the segment names, cleanup, and imports again.              *)
(***************************************************************************)
\* a segmentation file none of whose segments has a closed surface
WithoutSurfaces ==
  [name |-> "case00.seg.nrrd", fileType |-> "SegmentationFile",
   segments |-> << SegmentWithoutSurface("1"), SegmentWithoutSurface("2") >>]

CleanupPaths == { FileCatalogue[1], FileCatalogue[2], FileCatalogue[4], WithoutSurfaces }

NextCleanup ==
  \/ \E path \in CleanupPaths : importLabelMap(path)
  \/ \E path \in CleanupPaths : importSegmentation(path)
  \/ \E path \in CleanupPaths : importModel(path)
  \/ populateTopologyDictionary
  \/ populateDictSegmentNamesWithIntegers
  \/ cleanup

SpecCleanup == Init /\ [][NextCleanup]_vars

(***************************************************************************)
(* A cohort that grows after its first check: label maps with the segment  *)
(* "1" are imported, the table is populated and checked, and nobody        *)
(* edits the expectations.                                                 *)
(***************************************************************************)
Case05 == [name |-> "case05.nrrd", fileType |-> "VolumeFile",
           segments |-> << Segment("0", Tetrahedron), Segment("1", Tetrahedron) >>]

Case06 == [name |-> "case06.nrrd", fileType |-> "VolumeFile",
           segments |-> << Segment("0", Tetrahedron), Segment("1", SphereWithDebris) >>]

CohortPaths == { FileCatalogue[1], Case05, Case06 }

NextCohort ==
  \/ \E path \in CohortPaths : importLabelMap(path)
  \/ populateTopologyDictionary
  \/ populateInconsistentTopologyDict

SpecCohort == Init /\ [][NextCohort]_vars

(***************************************************************************)
(* Properties.                                                             *)
(***************************************************************************)
\* the topology numbers with a named kind of their own; every other number
\* is of the kind Multiple Holes
NamedTopologyNumbers == { 0, 1, 2, -2, -4 }

KindOf(topologyNumber) ==
  IF topologyNumber \in NamedTopologyNumbers THEN topologyNumber
  ELSE TOPOLOGY_MULTIPLE_HOLES_TYPE

\* (subject, segment) is an entry of a two-level dictionary
HasEntry(dict, subject, segment) ==
  subject \in DOMAIN dict /\ segment \in DOMAIN dict[subject]

\* the last call was a consistency check of topologyDict that returned
CheckReturned ==
  /\ ret.op \in { "populateInconsistentTopologyDict", "override" }
  /\ ret.how = "return"

ImportOps == { "importLabelMap", "importSegmentation", "importModel" }

\* C1: the first accepted import with N segments sets labelRangeInCohort to
\* (0,N); an import with M segments into a cohort whose range is (0,N), M # N,
\* returns False and leaves labelRangeInCohort, segmentationDict,
\* labelMapDict, modelDict and topologyDict as they were.
C1_LabelRangeCheck ==
  [][ \A path \in Paths :
        ( /\ ret'.op \in ImportOps
          /\ (importLabelMap(path) \/ importSegmentation(path) \/ importModel(path)) ) =>
          /\ (labelRangeInCohort = NoLabelRange /\ ret'.flag) =>
               labelRangeInCohort' = << 0, Len(path.segments) >>
          /\ ( /\ labelRangeInCohort # NoLabelRange
               /\ labelRangeInCohort # << 0, Len(path.segments) >> ) =>
               /\ ret'.flag = FALSE
               /\ UNCHANGED << labelRangeInCohort, segmentationDict, labelMapDict,
                               modelDict, topologyDict >> ]_vars

\* a loaded file whose number of segments differs from the range of the
\* cohort has just been rejected
C1_Witness ==
  /\ ret.op \in ImportOps
  /\ ret.flag = FALSE
  /\ ret.val # 0
  /\ labelRangeInCohort # NoLabelRange
  /\ labelRangeInCohort # << 0, ret.val >>
  /\ segmentationDict # << >>

\* C2: when every segment name of the table has an expectation, the check
\* returns; its deviations hold exactly the entries whose stored number
\* differs from the expectation of their segment, with the stored number as
\* value, no subject has an empty inner mapping, and the returned boolean is
\* true iff there is a deviation.
C2_DeviationsExact ==
  ( /\ ret.op \in { "populateInconsistentTopologyDict", "override" }
    /\ topologyDict # << >>
    /\ SegmentNamesOf(topologyDict) \subseteq DOMAIN expectedTopologiesBySegment )
  =>
    /\ ret.how = "return"
    /\ DOMAIN ret.dev \subseteq Keys(topologyDict)
    /\ \A n \in Keys(topologyDict) :
         /\ n \in DOMAIN ret.dev =>
              /\ DOMAIN ret.dev[n] # {}
              /\ DOMAIN ret.dev[n] \subseteq DOMAIN SegsOf(topologyDict, n)
         /\ \A s \in DOMAIN SegsOf(topologyDict, n) :
              /\ HasEntry(ret.dev, n, s) <=>
                   SegsOf(topologyDict, n)[s] # expectedTopologiesBySegment[s]
              /\ HasEntry(ret.dev, n, s) =>
                   ret.dev[n][s] = SegsOf(topologyDict, n)[s]
    /\ ret.flag <=> (DOMAIN ret.dev # {})

\* a check has returned deviations for one subject and none for another
C2_Witness ==
  /\ CheckReturned
  /\ ret.flag
  /\ \E n, m \in Keys(topologyDict) :
       /\ n \in DOMAIN ret.dev
       /\ m \notin DOMAIN ret.dev
       /\ DOMAIN SegsOf(topologyDict, m) # {}

\* every subject that has the segment carries the same number for it
UniformTable(t) ==
  \A i, j \in DOMAIN t : \A s \in DOMAIN t[i].segs \cap DOMAIN t[j].segs :
    t[i].segs[s] = t[j].segs[s]

\* C3: a table in which all subjects agree on every segment, checked against
\* expectations resolved from it by mode, has no inconsistency: the check
\* returns false, inconsistentTopologyDict is empty and every entry is
\* 'Consistent', whatever the topology number.
C3_UniformTableConsistent ==
  ( /\ ret.op = "populateInconsistentTopologyDict"
    /\ ret.how = "return"
    /\ UniformTable(topologyDict)
    /\ expectedTopologiesBySegment = initExpectedTopologyBySegmentWithModes(topologyDict) )
  =>
    /\ ret.flag = FALSE
    /\ inconsistentTopologyDict = EmptyDict
    /\ \A n \in Keys(topologyDict) : \A s \in DOMAIN SegsOf(topologyDict, n) :
         getConsistencyString(n, s) = "Consistent"

\* C4: against the expectation Multiple Holes, a subject whose number has no
\* named kind is consistent and a subject whose number has one is a deviation.
C4_MultipleHolesExpectation ==
  CheckReturned =>
    \A n \in Keys(topologyDict) : \A s \in DOMAIN SegsOf(topologyDict, n) :
      expectedTopologiesBySegment[s] = TOPOLOGY_MULTIPLE_HOLES_TYPE =>
        ( HasEntry(inconsistentTopologyDict, n, s) <=>
            SegsOf(topologyDict, n)[s] \in NamedTopologyNumbers )

\* the subjects of the table that have the segment with the number v
Occurrences(t, segment, v) ==
  Cardinality({ i \in DOMAIN t : segment \in DOMAIN t[i].segs /\ t[i].segs[segment] = v })

Observed(t, segment) ==
  { t[i].segs[segment] : i \in { j \in DOMAIN t : segment \in DOMAIN t[j].segs } }

\* C5: for a non-empty table in which a subject has the segment,
\* _computeModeOfSegment returns an observed value that occurs at least as
\* often as every other observed value.
C5_ModeIsMostFrequent ==
  ( /\ ret.op = "_computeModeOfSegment"
    /\ callerTable # << >>
    /\ Observed(callerTable, ret.arg) # {} )
  =>
    /\ ret.how = "return"
    /\ ret.val \in Observed(callerTable, ret.arg)
    /\ \A w \in Observed(callerTable, ret.arg) :
         Occurrences(callerTable, ret.arg, w) <= Occurrences(callerTable, ret.arg, ret.val)

\* the example of the docstring: segmentName0 is 0, 1, 1 and segmentName1 is
\* 1, 0, 0; the mode of segmentName0 is 1
C5_Witness ==
  /\ ret.op = "_computeModeOfSegment"
  /\ ret.arg = "segmentName0"
  /\ ret.how = "return"
  /\ ret.val = 1
  /\ Len(callerTable) = 3
  /\ \A i \in DOMAIN callerTable : DOMAIN callerTable[i].segs = TableSegmentNames
  /\ callerTable[1].segs["segmentName0"] = 0 /\ callerTable[1].segs["segmentName1"] = 1
  /\ callerTable[2].segs["segmentName0"] = 1 /\ callerTable[2].segs["segmentName1"] = 0
  /\ callerTable[3].segs["segmentName0"] = 1 /\ callerTable[3].segs["segmentName1"] = 0

\* the subjects that have the segment with a number of kind k
KindOccurrences(t, segment, k) ==
  Cardinality({ i \in DOMAIN t :
                  segment \in DOMAIN t[i].segs /\ KindOf(t[i].segs[segment]) = k })

\* C6: the resolved expectation of a segment is the most frequent kind among
\* the subjects that have it, all numbers without a named kind counting as
\* Multiple Holes, whenever one kind is strictly the most frequent.
C6_ModeOfKinds ==
  ret.op = "initExpectedTopologyBySegmentWithModes" =>
    \A s \in SegmentNamesOf(callerTable) : \A k \in TOPOLOGY_TYPES :
      ( \A other \in TOPOLOGY_TYPES \ { k } :
          KindOccurrences(callerTable, s, other) < KindOccurrences(callerTable, s, k) )
      => ( s \in DOMAIN expectedTopologiesBySegment
           /\ expectedTopologiesBySegment[s] = k )

\* C7: the mode of a segment name that no subject of a non-empty table has is
\* None, without an exception, and the call changes nothing of the logic.
C7_UnknownSegmentIsNone ==
  [][ \A inputSegmentName \in QueriedSegmentNames :
        ( /\ call_computeModeOfSegment(inputSegmentName)
          /\ callerTable # << >>
          /\ Observed(callerTable, inputSegmentName) = {} )
        =>
          /\ ret'.how = "returnNone"
          /\ UNCHANGED << callerTable, expectedTopologiesBySegment, topologyDict,
                          inconsistentTopologyDict, polyDataDict, segmentationDict,
                          labelMapDict, modelDict, labelRangeInCohort, saveCleanData,
                          numberOfDifferentSegments, dictSegmentNamesWithIntegers >> ]_vars

\* the mode of 'non_existing' was asked of a table with resolved expectations
C7_Witness ==
  /\ ret.op = "_computeModeOfSegment"
  /\ ret.arg = "non_existing"
  /\ ret.how = "returnNone"
  /\ Len(callerTable) >= 2
  /\ expectedTopologiesBySegment # EmptyDict

\* C8: resolving expectations never raises for a non-empty table and ends in
\* an error for the empty table, also when checkTopologyConsistency invokes it.
C8_EmptyTableIsAnError ==
  ret.op \in { "initExpectedTopologyBySegmentWithModes", "checkTopologyConsistency" } =>
    /\ (callerTable = << >> => ret.how = "raise")
    /\ (ret.op = "initExpectedTopologyBySegmentWithModes" /\ callerTable # << >> =>
          ret.how = "return")

\* C9: a check of a table with a segment name that has no entry in the
\* non-empty expectations fails with an error, and
\* populateInconsistentTopologyDict leaves inconsistentTopologyDict unchanged.
C9_MissingExpectationFails ==
  [][ ( /\ ret'.op \in { "populateInconsistentTopologyDict", "override" }
        /\ \/ populateInconsistentTopologyDict
           \/ \E index \in ComboBoxIndexes, name \in DisplayedSegmentNames :
                onSegmentTableWidgetComboBoxCurrentIndexChanged(index, name)
        /\ topologyDict # << >>
        /\ expectedTopologiesBySegment # EmptyDict
        /\ ~(SegmentNamesOf(topologyDict) \subseteq DOMAIN expectedTopologiesBySegment) )
      =>
        /\ ret'.how = "raise"
        /\ UNCHANGED inconsistentTopologyDict ]_vars

\* a check of a cohort with deviations has failed on a new segment name
C9_Witness ==
  /\ ret.op = "populateInconsistentTopologyDict"
  /\ ret.how = "raise"
  /\ inconsistentTopologyDict # EmptyDict
  /\ ~(SegmentNamesOf(topologyDict) \subseteq DOMAIN expectedTopologiesBySegment)

\* C10: after the user sets the expectation of segment s to k and the
\* check has run again, the expectation of s is k, every other expectation
\* is as before (the resolver did not run), the deviations of s are the
\* subjects whose stored number differs from k, and the deviations of every
\* other segment are those of its unchanged expectation.
C10_OverrideThenCheck ==
  [][ \A index \in ComboBoxIndexes, name \in DisplayedSegmentNames :
        ( /\ ret'.op = "override"
          /\ ret'.how = "return"
          /\ onSegmentTableWidgetComboBoxCurrentIndexChanged(index, name) )
        =>
          /\ DOMAIN expectedTopologiesBySegment' = DOMAIN expectedTopologiesBySegment
          /\ expectedTopologiesBySegment'[name] = indexToTopologyType[index + 1]
          /\ \A s \in DOMAIN expectedTopologiesBySegment \ { name } :
               expectedTopologiesBySegment'[s] = expectedTopologiesBySegment[s]
          /\ \A n \in Keys(topologyDict) : \A s \in DOMAIN SegsOf(topologyDict, n) :
               HasEntry(inconsistentTopologyDict', n, s) <=>
                 SegsOf(topologyDict, n)[s] #
                   ( IF s = name THEN indexToTopologyType[index + 1]
                     ELSE expectedTopologiesBySegment[s] ) ]_vars

\* an override to another value than the resolved one has been checked: it
\* made a consistent entry of the segment a deviation, beside another segment
C10_Witness ==
  /\ ret.op = "override"
  /\ ret.how = "return"
  /\ Cardinality(DOMAIN expectedTopologiesBySegment) >= 2
  /\ expectedTopologiesBySegment[ret.arg] = ret.val
  /\ ret.val # initExpectedTopologyBySegmentWithModes(topologyDict)[ret.arg]
  /\ \E n \in Keys(topologyDict) :
       /\ HasEntry(inconsistentTopologyDict, n, ret.arg)
       /\ SegsOf(topologyDict, n)[ret.arg] =
            initExpectedTopologyBySegmentWithModes(topologyDict)[ret.arg]

\* C11: when the expectation of segment s has been overridden to k and the
\* resolver is then run again on the table, the expectation of s is still k.
C11_OverrideSurvivesResolver ==
  [][ ( /\ ret.op = "override"
        /\ rerun_initExpectedTopologyBySegmentWithModes )
      =>
        /\ ret.arg \in DOMAIN expectedTopologiesBySegment'
        /\ expectedTopologiesBySegment'[ret.arg] = ret.val ]_vars

\* C12: checkTopologyConsistency leaves the input table,
\* expectedTopologiesBySegment and inconsistentTopologyDict unchanged on
\* every call.
C12_CheckHasNoSideEffect ==
  [][ call_checkTopologyConsistency =>
        UNCHANGED << callerTable, expectedTopologiesBySegment,
                     inconsistentTopologyDict >> ]_vars

\* a consistency check of the table has returned at least once: the
\* expectations are resolved by the first check of a non-empty table only
CheckHasRun == expectedTopologiesBySegment # EmptyDict

\* the stored number of (subject, segment) differs from the expectation of
\* the segment
DiffersFromExpectation(n, s) ==
  s \in DOMAIN expectedTopologiesBySegment =>
    SegsOf(topologyDict, n)[s] # expectedTopologiesBySegment[s]

\* C13: once a consistency check has run, inconsistentTopologyDict holds
\* exactly the entries of topologyDict that differ from the current
\* expectation of their segment, so getConsistencyString is 'Inconsistent'
\* iff the stored number differs from the current expectation.
C13_DeviationsNeverStale ==
  CheckHasRun =>
    /\ DOMAIN inconsistentTopologyDict \subseteq Keys(topologyDict)
    /\ \A n \in Keys(topologyDict) : \A s \in DOMAIN SegsOf(topologyDict, n) :
         /\ HasEntry(inconsistentTopologyDict, n, s) <=> DiffersFromExpectation(n, s)
         /\ (getConsistencyString(n, s) = "Inconsistent") <=> DiffersFromExpectation(n, s)

\* the mesh of segment s of subject n as the segmentation node holds it
SurfaceOf(n, s) ==
  LET segments == segmentationDict[IndexOf(segmentationDict, n)].segments
  IN segments[CHOOSE i \in DOMAIN segments : segments[i].name = s].polydata

\* points - edges + polygons of a connected component without its duplicated
\* points, every undirected edge counted once
EulerOfComponent(c) == c.points - c.edges + c.polys

\* the components of a mesh with the most polygons
LargestComponents(m) ==
  { i \in DOMAIN m.comps : \A j \in DOMAIN m.comps : m.comps[j].polys <= m.comps[i].polys }

\* C15: the stored topology number of every classified (subject, segment) is
\* PointCount - EdgeCount + PolygonCount of the normalized mesh, i.e. of a
\* largest connected component with duplicates merged and every undirected
\* edge counted once; a mesh without polygons has the number 0.
C15_TopologyNumberIsEuler ==
  \A n \in Keys(topologyDict) : \A s \in DOMAIN SegsOf(topologyDict, n) :
    LET m == SurfaceOf(n, s)
    IN IF m.comps = << >> THEN SegsOf(topologyDict, n)[s] = 0
       ELSE \E i \in LargestComponents(m) :
              SegsOf(topologyDict, n)[s] = EulerOfComponent(m.comps[i])

\* a closed tetrahedron with duplicated points, beside a smaller component
\* and a stray point, has been classified: 4 - 6 + 4 = 2
C15_Witness ==
  /\ ret.op = "populateTopologyDictionary"
  /\ HasEntry([n \in Keys(topologyDict) |-> SegsOf(topologyDict, n)], "mesh.vtk", "1")
  /\ SurfaceOf("mesh.vtk", "1") =
       Mesh(<< Component(3, 0, 3, 1), Component(4, 2, 6, 4) >>, 1)
  /\ SegsOf(topologyDict, "mesh.vtk")["1"] = 2

\* the counts of a mesh
CountsOf(m) == << GetNumberOfPoints(m), GetNumberOfPolys(m), GetNumberOfLines(m) >>

\* C16: normalizing a normalized mesh changes nothing: the clean data stored
\* by populateTopologyDictionary under saveCleanData has the same point,
\* polygon and edge counts after another normalization, and its topology
\* number is the stored one.
C16_NormalizeIdempotent ==
  (ret.op = "populateTopologyDictionary" /\ saveCleanData) =>
    \A n \in Keys(topologyDict) : \A s \in DOMAIN SegsOf(topologyDict, n) :
      /\ HasEntry(polyDataDict, n, s)
      /\ CountsOf(CleanData(polyDataDict[n][s])) = CountsOf(polyDataDict[n][s])
      /\ TopologyNumber(polyDataDict[n][s]) = SegsOf(topologyDict, n)[s]

\* the clean data of a mesh of two components with duplicated and stray
\* points has been stored: normalization had removed points and polygons
C16_Witness ==
  /\ ret.op = "populateTopologyDictionary"
  /\ saveCleanData
  /\ HasEntry(polyDataDict, "mesh.vtk", "1")
  /\ Len(SurfaceOf("mesh.vtk", "1").comps) = 2
  /\ GetNumberOfPoints(polyDataDict["mesh.vtk"]["1"]) + 3
       <= GetNumberOfPoints(SurfaceOf("mesh.vtk", "1"))
  /\ GetNumberOfPolys(polyDataDict["mesh.vtk"]["1"])
       < GetNumberOfPolys(SurfaceOf("mesh.vtk", "1"))

\* the segments of subject n as the segmentation node holds them
SegmentsOfSubject(n) == segmentationDict[IndexOf(segmentationDict, n)].segments

\* C17: no subject has an entry for the segment name "0" in topologyDict or
\* polyDataDict, and "0" is neither a deviation nor a resolved expectation,
\* although the label range counts the segment.
C17_BackgroundExcluded ==
  /\ \A i \in DOMAIN topologyDict : "0" \notin DOMAIN topologyDict[i].segs
  /\ \A n \in DOMAIN polyDataDict : "0" \notin DOMAIN polyDataDict[n]
  /\ \A n \in DOMAIN inconsistentTopologyDict : "0" \notin DOMAIN inconsistentTopologyDict[n]
  /\ "0" \notin DOMAIN expectedTopologiesBySegment

\* a label map with the segments "0" and "1" is in the cohort of range (0,2),
\* classified and checked
C17_Witness ==
  /\ labelRangeInCohort = << 0, 2 >>
  /\ "case01.nrrd" \in Keys(topologyDict)
  /\ \E i \in DOMAIN SegmentsOfSubject("case01.nrrd") :
       /\ SegmentsOfSubject("case01.nrrd")[i].name = "0"
       /\ SegmentsOfSubject("case01.nrrd")[i].hasSurface
  /\ DOMAIN SegsOf(topologyDict, "case01.nrrd") = { "1" }
  /\ DOMAIN polyDataDict["case01.nrrd"] = { "1" }
  /\ CheckReturned
  /\ DOMAIN expectedTopologiesBySegment = { "1" }

\* C18: populateTopologyDictionary gives a non-background segment without
\* closed surface no entry in topologyDict and polyDataDict, and still stores
\* every other non-background segment of that subject and of every other
\* subject, with its topology number.
C18_MissingSurfaceSkipped ==
  [][ ( /\ ret'.op = "populateTopologyDictionary"
        /\ populateTopologyDictionary )
      =>
        \A n \in Keys(segmentationDict) :
          /\ n \in Keys(topologyDict')
          /\ n \in DOMAIN polyDataDict'
          /\ \A i \in DOMAIN SegmentsOfSubject(n) :
               LET seg == SegmentsOfSubject(n)[i]
               IN seg.name # "0" =>
                    IF seg.hasSurface
                    THEN /\ seg.name \in DOMAIN SegsOf(topologyDict', n)
                         /\ SegsOf(topologyDict', n)[seg.name] = TopologyNumber(seg.polydata)
                         /\ seg.name \in DOMAIN polyDataDict'[n]
                    ELSE /\ seg.name \notin DOMAIN SegsOf(topologyDict', n)
                         /\ seg.name \notin DOMAIN polyDataDict'[n] ]_vars

\* the subject whose segment "2" has no surface is in the table with its
\* segment "1" only, followed by a subject with both segments
C18_Witness ==
  /\ ret.op = "populateTopologyDictionary"
  /\ Len(topologyDict) >= 2
  /\ \E i, j \in DOMAIN topologyDict :
       /\ i < j
       /\ topologyDict[i].name = "case03.seg.nrrd"
       /\ DOMAIN topologyDict[i].segs = { "1" }
       /\ DOMAIN polyDataDict["case03.seg.nrrd"] = { "1" }
       /\ DOMAIN topologyDict[j].segs = { "1", "2" }

\* the string the display shows for a stored topology number
TopologyLabel(topologyNumber) ==
  CASE topologyNumber = 0 -> "Circle/Torus/Mobius Strip"
    [] topologyNumber = 1 -> "Disk"
    [] topologyNumber = 2 -> "Sphere"
    [] topologyNumber = -2 -> "Double Torus"
    [] topologyNumber = -4 -> "Triple Torus"
    [] OTHER -> ToString(topologyNumber) \o ": Multiple Holes"

\* C14: getTopologyString gives the name of the kind for the stored numbers
\* 0, 1, 2, -2, -4, '<n>: Multiple Holes' for every other stored number n,
\* and 'n/a' when the subject or the segment is not in the table.
C14_TopologyStringExact ==
  ret.op = "getTopologyString" =>
    LET nodeName == ret.arg[1]
        segmentName == ret.arg[2]
    IN ret.val =
         IF /\ nodeName \in Keys(topologyDict)
            /\ segmentName \in DOMAIN SegsOf(topologyDict, nodeName)
         THEN TopologyLabel(SegsOf(topologyDict, nodeName)[segmentName])
         ELSE "n/a"

\* the file of path p can be read by the loader of its type
Readable(p) == p.name \notin UnreadableFiles

\* importFiles has just handled the list filePaths, all of handled types
BatchOfHandledTypes(filePaths) ==
  \A i \in DOMAIN filePaths : filePaths[i].fileType \in HandledFileTypes

\* path p fits a cohort of the given label range
FitsRange(p, labelRange) ==
  Readable(p) /\ << 0, Len(p.segments) >> = labelRange

\* C19: importFiles on a list of paths of handled types returns True and has
\* processed every path: each readable path that matches the label range of
\* the cohort is a subject of the cohort, also after a path that was
\* rejected, and a rejected path added nothing.
C19_RejectedDoesNotAbort ==
  [][ ( /\ ret'.op = "importFiles"
        /\ importFiles(ret'.arg)
        /\ BatchOfHandledTypes(ret'.arg) )
      =>
        LET filePaths == ret'.arg
        IN /\ ret'.how = "return"
           /\ ret'.flag
           /\ Len(ret'.val) = Len(filePaths)
           /\ labelRangeInCohort # NoLabelRange =>
                labelRangeInCohort' = labelRangeInCohort
           /\ (\E i \in DOMAIN filePaths : Readable(filePaths[i])) =>
                labelRangeInCohort' # NoLabelRange
           /\ \A i \in DOMAIN filePaths :
                /\ ret'.val[i] <=> FitsRange(filePaths[i], labelRangeInCohort')
                /\ ret'.val[i] => filePaths[i].name \in Keys(segmentationDict')
           /\ Keys(segmentationDict') =
                Keys(segmentationDict) \cup
                  { filePaths[i].name : i \in { j \in DOMAIN filePaths : ret'.val[j] } } ]_vars

\* a list whose first path was rejected and whose second path was accepted
\* has been imported
C19_Witness ==
  /\ ret.op = "importFiles"
  /\ ret.how = "return"
  /\ ret.flag
  /\ Len(ret.val) = 2
  /\ ~ret.val[1]
  /\ ret.val[2]
  /\ ret.arg[2].name \in Keys(segmentationDict)

\* the position of the first path of a type that importFiles does not handle
FirstUnhandled(filePaths) ==
  CHOOSE k \in DOMAIN filePaths :
    /\ filePaths[k].fileType \notin HandledFileTypes
    /\ \A i \in 1 .. (k - 1) : filePaths[i].fileType \in HandledFileTypes

\* C20: importFiles raises at the first path whose file type is 'NoFile' or
\* any other type than the three handled ones; the paths before it have been
\* imported and stay in the cohort with the label range they established,
\* and no path after it is processed.
C20_RaisesAtFirstUnhandled ==
  [][ ( /\ ret'.op = "importFiles"
        /\ importFiles(ret'.arg)
        /\ ~BatchOfHandledTypes(ret'.arg) )
      =>
        LET filePaths == ret'.arg
            k == FirstUnhandled(filePaths)
            earlier == 1 .. (k - 1)
        IN /\ ret'.how = "raise"
           /\ Len(ret'.val) = k - 1
           /\ \A i \in earlier :
                /\ ret'.val[i] <=> FitsRange(filePaths[i], labelRangeInCohort')
                /\ ret'.val[i] => filePaths[i].name \in Keys(segmentationDict')
           /\ Keys(segmentationDict') =
                Keys(segmentationDict) \cup
                  { filePaths[i].name : i \in { j \in earlier : ret'.val[j] } }
           /\ labelRangeInCohort' =
                IF labelRangeInCohort # NoLabelRange THEN labelRangeInCohort
                ELSE IF \E i \in earlier : Readable(filePaths[i])
                THEN << 0, Len(filePaths[CHOOSE i \in earlier :
                                 /\ Readable(filePaths[i])
                                 /\ \A j \in earlier : Readable(filePaths[j]) => i <= j].segments) >>
                ELSE NoLabelRange ]_vars

\* importFiles has raised at the second path of a list after it had imported
\* the first one into an empty cohort
C20_Witness ==
  /\ ret.op = "importFiles"
  /\ ret.how = "raise"
  /\ Len(ret.arg) = 2
  /\ ret.val = << TRUE >>
  /\ Keys(segmentationDict) = { ret.arg[1].name }
  /\ labelRangeInCohort = << 0, Len(ret.arg[1].segments) >>

\* C22: after populateDictSegmentNamesWithIntegers, called once or several
\* times, every segment name of topologyDict is a key of
\* dictSegmentNamesWithIntegers, distinct names of the table have distinct
\* integers in 1..k, and numberOfDifferentSegments is k, the number of
\* distinct segment names of the table.
C22_SegmentNamesWithIntegers ==
  ret.op = "populateDictSegmentNamesWithIntegers" =>
    LET names == SegmentNamesOf(topologyDict)
        k == Cardinality(names)
    IN /\ names \subseteq DOMAIN dictSegmentNamesWithIntegers
       /\ \A s \in names : dictSegmentNamesWithIntegers[s] \in 1 .. k
       /\ \A s1, s2 \in names :
            s1 # s2 => dictSegmentNamesWithIntegers[s1] # dictSegmentNamesWithIntegers[s2]
       /\ numberOfDifferentSegments = k

\* C24: after cleanup the cohort state is that of a new logic: no label
\* range, and topologyDict, polyDataDict, inconsistentTopologyDict,
\* segmentationDict, labelMapDict, modelDict, expectedTopologiesBySegment and
\* dictSegmentNamesWithIntegers are empty.
C24_CleanupResetsAll ==
  ret.op = "cleanup" =>
    /\ labelRangeInCohort = NoLabelRange
    /\ topologyDict = << >>
    /\ polyDataDict = EmptyDict
    /\ inconsistentTopologyDict = EmptyDict
    /\ segmentationDict = << >>
    /\ labelMapDict = {}
    /\ modelDict = {}
    /\ expectedTopologiesBySegment = EmptyDict
    /\ dictSegmentNamesWithIntegers = EmptyDict

\* C25: labelRangeInCohort is (-1,-1) or (0,N), and while it is (0,N) every
\* subject of segmentationDict has exactly N segments.
C25_LabelRangeInvariant ==
  \/ labelRangeInCohort = NoLabelRange
  \/ /\ labelRangeInCohort[1] = 0
     /\ labelRangeInCohort[2] >= 0
     /\ \A i \in DOMAIN segmentationDict :
          Len(segmentationDict[i].segments) = labelRangeInCohort[2]

\* C28: after populateTopologyDictionary the subjects of topologyDict are
\* those of segmentationDict, a subject without classified segment having an
\* empty entry; polyDataDict has the same (subject, segment) keys; and a
\* second call right after the first leaves topologyDict unchanged.
C28_TableKeysAgree ==
  [][ ( /\ ret'.op = "populateTopologyDictionary"
        /\ populateTopologyDictionary )
      =>
        /\ Keys(topologyDict') = Keys(segmentationDict)
        /\ DOMAIN polyDataDict' = Keys(topologyDict')
        /\ \A n \in Keys(topologyDict') :
             DOMAIN polyDataDict'[n] = DOMAIN SegsOf(topologyDict', n)
        /\ ret.op = "populateTopologyDictionary" => topologyDict' = topologyDict ]_vars

\* the table has been populated for a cohort with a subject none of whose
\* segments has a surface, beside a subject with classified segments
C28_Witness ==
  /\ ret.op = "populateTopologyDictionary"
  /\ Len(topologyDict) >= 2
  /\ Keys(topologyDict) = Keys(segmentationDict)
  /\ "case00.seg.nrrd" \in Keys(topologyDict)
  /\ SegsOf(topologyDict, "case00.seg.nrrd") = EmptyDict
  /\ polyDataDict["case00.seg.nrrd"] = EmptyDict
  /\ \E n \in Keys(topologyDict) : SegsOf(topologyDict, n) # EmptyDict

\* the normalized mesh: the first of the largest components, its duplicated
\* points merged, and no point outside it
NormalizedMesh(m) ==
  IF m.comps = << >> THEN Mesh(<< >>, 0)
  ELSE LET first == CHOOSE i \in LargestComponents(m) :
                      \A j \in LargestComponents(m) : i <= j
       IN Mesh(<< [m.comps[first] EXCEPT !.dups = 0] >>, 0)

C26_ExpectationsTrackCohort ==
  ( /\ ret.op = "populateInconsistentTopologyDict"
    /\ ret.how = "return"
    /\ topologyDict # << >> )
  => expectedTopologiesBySegment = initExpectedTopologyBySegmentWithModes(topologyDict)

\* the six kind codes, the keys of topologyTypeToIndex
KindCodes == { 0, 1, 2, -2, -4, -9999 }

\* C27: after initExpectedTopologyBySegmentWithModes on a non-empty table the
\* keys of expectedTopologiesBySegment are exactly the segment names of the
\* table, and every expectation, also after any override, is one of the six
\* kind codes, so that the lookup of the expected kind of a segment of the
\* table and of its combo box index succeeds.
C27_ExpectationsAreKindCodes ==
  /\ \A s \in DOMAIN expectedTopologiesBySegment :
       expectedTopologiesBySegment[s] \in KindCodes
  /\ ( /\ ret.op = "initExpectedTopologyBySegmentWithModes"
       /\ topologyDict # << >> )
     => /\ DOMAIN expectedTopologiesBySegment = SegmentNamesOf(topologyDict)
        /\ \A i \in DOMAIN topologyDict : \A s \in DOMAIN topologyDict[i].segs :
             /\ s \in DOMAIN expectedTopologiesBySegment
             /\ expectedTopologiesBySegment[s] \in KindCodes

\* the resolver has run on a table of two segment names in which the mode of
\* a segment is a number without a named kind
C27_Witness ==
  /\ ret.op = "initExpectedTopologyBySegmentWithModes"
  /\ Cardinality(SegmentNamesOf(topologyDict)) = 2
  /\ DOMAIN expectedTopologiesBySegment = SegmentNamesOf(topologyDict)
  /\ \E s \in SegmentNamesOf(topologyDict) :
       /\ computeModeOfSegment(topologyDict, s).val \notin KindCodes
       /\ expectedTopologiesBySegment[s] = TOPOLOGY_MULTIPLE_HOLES_TYPE

====
